---------------------------- MODULE Spec2Model ----------------------------
(***************************************************************************)
(* Model of package tracking (milbertk/tracking):                          *)
(*   collector.go  - Collector (NewCollector, Close, Extract) and the      *)
(*                   helpers clientIP, parseUA, firstLang;                 *)
(*   the Insert method of LoginTracking.                                   *)
(*                                                                         *)
(* Go strings are modelled as sequences of one-character strings, so that  *)
(* trimming, splitting, searching, parsing and formatting are computed     *)
(* character by character, the way the code and the Go library do it.      *)
(***************************************************************************)
EXTENDS Integers, Sequences, FiniteSets, TLC

(***************************************************************************)
(* Characters                                                              *)
(***************************************************************************)
Uppers == <<"A","B","C","D","E","F","G","H","I","J","K","L","M",
            "N","O","P","Q","R","S","T","U","V","W","X","Y","Z">>

Lowers == <<"a","b","c","d","e","f","g","h","i","j","k","l","m",
            "n","o","p","q","r","s","t","u","v","w","x","y","z">>

HexDigits == <<"0","1","2","3","4","5","6","7","8","9","a","b","c","d","e","f">>

\* index of character c in the sequence of characters cs, 0 when absent
RECURSIVE IndexIn(_, _, _)
IndexIn(cs, c, i) ==
    IF i > Len(cs) THEN 0
    ELSE IF cs[i] = c THEN i
    ELSE IndexIn(cs, c, i + 1)

\* the lower-case letter of each upper-case letter
LowerOf ==
    [ch \in {Uppers[i] : i \in 1..26} |-> Lowers[CHOOSE i \in 1..26 : Uppers[i] = ch]]

\* unicode.ToLower restricted to ASCII letters
ToLowerChar(ch) == IF ch \in DOMAIN LowerOf THEN LowerOf[ch] ELSE ch

\* strings.ToLower
ToLower(s) == [i \in 1..Len(s) |-> ToLowerChar(s[i])]

\* the value of each hexadecimal digit, in either case
HexValOf ==
    [ch \in {HexDigits[i] : i \in 1..16} \cup {Uppers[i] : i \in 1..6} |->
        (CHOOSE i \in 1..16 :
            HexDigits[i] = (IF ch \in DOMAIN LowerOf THEN LowerOf[ch] ELSE ch)) - 1]

IsDigit(ch) == ch \in {"0", "1", "2", "3", "4", "5", "6", "7", "8", "9"}

IsHex(ch) == ch \in DOMAIN HexValOf

\* value of a hexadecimal (or decimal) digit
HexVal(ch) == HexValOf[ch]

\* unicode.IsSpace on the characters of the model's alphabet
IsSpace(c) == c \in {" ", "\t", "\n", "\r"}

(***************************************************************************)
(* package strings                                                         *)
(***************************************************************************)
RECURSIVE TrimLeft(_)
TrimLeft(s) ==
    IF s = <<>> THEN s
    ELSE IF IsSpace(Head(s)) THEN TrimLeft(Tail(s))
    ELSE s

RECURSIVE TrimRight(_)
TrimRight(s) ==
    IF s = <<>> THEN s
    ELSE IF IsSpace(s[Len(s)]) THEN TrimRight(SubSeq(s, 1, Len(s) - 1))
    ELSE s

\* strings.TrimSpace
TrimSpace(s) == TrimRight(TrimLeft(s))

\* strings.IndexByte, 0-based as in Go; -1 when c does not occur
IndexByte(s, c) == IndexIn(s, c, 1) - 1

\* strings.LastIndexByte, 0-based; -1 when c does not occur
RECURSIVE LastIndexFrom(_, _, _)
LastIndexFrom(s, c, i) ==
    IF i < 1 THEN -1
    ELSE IF s[i] = c THEN i - 1
    ELSE LastIndexFrom(s, c, i - 1)

LastIndexByte(s, c) == LastIndexFrom(s, c, Len(s))

\* the Go slice s[lo:hi] (0-based, hi exclusive)
Slice(s, lo, hi) == SubSeq(s, lo + 1, hi)

\* strings.Split(s, sep) for a one-character separator
RECURSIVE Split(_, _)
Split(s, sep) ==
    LET i == IndexByte(s, sep) IN
    IF i < 0 THEN <<s>>
    ELSE <<Slice(s, 0, i)>> \o Split(Slice(s, i + 1, Len(s)), sep)

\* strings.Contains
Contains(s, sub) ==
    \E i \in 0..(Len(s) - Len(sub)) : SubSeq(s, i + 1, i + Len(sub)) = sub

(***************************************************************************)
(* package net: ParseIP, IP.String, SplitHostPort                          *)
(*                                                                         *)
(* A parsed address is the 16-byte form net.ParseIP returns, kept as eight *)
(* 16-bit groups; an IPv4 address a.b.c.d is ::ffff:a.b.c.d there.         *)
(***************************************************************************)
NilIP == [ok |-> FALSE, g |-> <<>>]

OkIP(groups) == [ok |-> TRUE, g |-> groups]

\* netip.parseIPv4Fields: the scan over s from (1-based) position i, with the
\* value and digit count of the current octet and the octets already closed
RECURSIVE V4Scan(_, _, _, _, _)
V4Scan(s, i, val, digLen, fields) ==
    IF i > Len(s)
    THEN IF Len(fields) < 3 THEN <<>> ELSE Append(fields, val)
    ELSE IF IsDigit(s[i])
    THEN IF digLen = 1 /\ val = 0 THEN <<>>
         ELSE IF val * 10 + HexVal(s[i]) > 255 THEN <<>>
         ELSE V4Scan(s, i + 1, val * 10 + HexVal(s[i]), digLen + 1, fields)
    ELSE IF s[i] = "."
    THEN IF i = 1 \/ i = Len(s) \/ s[i - 1] = "." THEN <<>>
         ELSE IF Len(fields) = 3 THEN <<>>
         ELSE V4Scan(s, i + 1, 0, 0, Append(fields, val))
    ELSE <<>>

\* the four octets of a dotted-decimal address, <<>> when s is not one
ParseIPv4Fields(s) == V4Scan(s, 1, 0, 0, <<>>)

ParseIPv4(s) ==
    LET f == ParseIPv4Fields(s) IN
    IF f = <<>> THEN NilIP
    ELSE OkIP(<<0, 0, 0, 0, 0, 65535, f[1] * 256 + f[2], f[3] * 256 + f[4]>>)

\* number of leading hexadecimal digits of s
RECURSIVE HexRun(_)
HexRun(s) ==
    IF s = <<>> \/ ~IsHex(Head(s)) THEN 0 ELSE 1 + HexRun(Tail(s))

\* value of the hexadecimal number written by s
RECURSIVE HexNum(_)
HexNum(s) ==
    IF s = <<>> THEN 0
    ELSE 16 * HexNum(SubSeq(s, 1, Len(s) - 1)) + HexVal(s[Len(s)])

\* netip.parseIPv6, after its loop: the whole string must be used, and the
\* ellipsis (position ell in groups, -1 when there is none) is expanded
V6Finish(s, g, ell) ==
    IF s # <<>> THEN NilIP
    ELSE IF Len(g) < 8
    THEN IF ell < 0 THEN NilIP
         ELSE OkIP(SubSeq(g, 1, ell) \o [k \in 1..(8 - Len(g)) |-> 0]
                   \o SubSeq(g, ell + 1, Len(g)))
    ELSE IF ell >= 0 THEN NilIP
    ELSE OkIP(g)

\* netip.parseIPv6, one turn of its loop: s is what is left to parse, g the
\* groups read so far (fewer than eight)
RECURSIVE V6Loop(_, _, _)
V6Loop(s, g, ell) ==
    LET off == HexRun(s) IN
    IF off > 4 \/ off = 0 THEN NilIP
    ELSE IF off < Len(s) /\ s[off + 1] = "."
    THEN \* trailing embedded IPv4
         IF ell < 0 /\ Len(g) # 6 THEN NilIP
         ELSE IF Len(g) + 2 > 8 THEN NilIP
         ELSE LET f == ParseIPv4Fields(s) IN
              IF f = <<>> THEN NilIP
              ELSE V6Finish(<<>>, g \o <<f[1] * 256 + f[2], f[3] * 256 + f[4]>>, ell)
    ELSE LET g2 == Append(g, HexNum(SubSeq(s, 1, off)))
             s2 == SubSeq(s, off + 1, Len(s))
         IN  IF s2 = <<>> THEN V6Finish(s2, g2, ell)
             ELSE IF s2[1] # ":" THEN NilIP
             ELSE IF Len(s2) = 1 THEN NilIP
             ELSE IF s2[2] = ":"
             THEN IF ell >= 0 THEN NilIP
                  ELSE IF Len(s2) = 2 \/ Len(g2) >= 8
                  THEN V6Finish(SubSeq(s2, 3, Len(s2)), g2, Len(g2))
                  ELSE V6Loop(SubSeq(s2, 3, Len(s2)), g2, Len(g2))
             ELSE IF Len(g2) >= 8 THEN V6Finish(Tail(s2), g2, ell)
             ELSE V6Loop(Tail(s2), g2, ell)

\* netip.parseIPv6; a zone ("%...") makes net.ParseIP return nil
ParseIPv6(s) ==
    IF IndexByte(s, "%") >= 0 THEN NilIP
    ELSE IF Len(s) >= 2 /\ s[1] = ":" /\ s[2] = ":"
    THEN IF Len(s) = 2 THEN OkIP(<<0, 0, 0, 0, 0, 0, 0, 0>>)
         ELSE V6Loop(SubSeq(s, 3, Len(s)), <<>>, 0)
    ELSE V6Loop(s, <<>>, -1)

\* netip.ParseAddr: the first of '.', ':' and '%' in s decides the parser
RECURSIVE ParseAddrFrom(_, _)
ParseAddrFrom(s, i) ==
    IF i > Len(s) THEN NilIP
    ELSE IF s[i] = "." THEN ParseIPv4(s)
    ELSE IF s[i] = ":" THEN ParseIPv6(s)
    ELSE IF s[i] = "%" THEN NilIP
    ELSE ParseAddrFrom(s, i + 1)

\* net.ParseIP(s) != nil is ParseIP(s).ok
ParseIP(s) == ParseAddrFrom(s, 1)

\* decimal digits of n (n >= 0), as strconv writes them
RECURSIVE DecStr(_)
DecStr(n) ==
    IF n < 10 THEN <<HexDigits[n + 1]>>
    ELSE Append(DecStr(n \div 10), HexDigits[(n % 10) + 1])

\* lower-case hexadecimal digits of n, without leading zeros
RECURSIVE HexStr(_)
HexStr(n) ==
    IF n < 16 THEN <<HexDigits[n + 1]>>
    ELSE Append(HexStr(n \div 16), HexDigits[(n % 16) + 1])

\* length of the run of zero groups of g that starts at (0-based) group i
RECURSIVE ZeroRun(_, _)
ZeroRun(g, i) ==
    IF i < 8 /\ g[i + 1] = 0 THEN 1 + ZeroRun(g, i + 1) ELSE 0

\* netip.Addr.appendTo6: the first longest run of two or more zero groups,
\* as <<start, end>>, searched from group i with the best so far zs..ze
RECURSIVE BestZeros(_, _, _, _)
BestZeros(g, i, zs, ze) ==
    IF i >= 8 THEN <<zs, ze>>
    ELSE LET l == ZeroRun(g, i) IN
         IF l >= 2 /\ l > ze - zs
         THEN BestZeros(g, i + 1, i, i + l)
         ELSE BestZeros(g, i + 1, zs, ze)

\* netip.Addr.appendTo6: the text from group i on
RECURSIVE Fmt6(_, _, _)
Fmt6(g, i, z) ==
    IF i >= 8 THEN <<>>
    ELSE IF i = z[1]
    THEN <<":", ":">> \o
         (IF z[2] >= 8 THEN <<>> ELSE HexStr(g[z[2] + 1]) \o Fmt6(g, z[2] + 1, z))
    ELSE (IF i > 0 THEN <<":">> ELSE <<>>) \o HexStr(g[i + 1])
         \o Fmt6(g, i + 1, z)

\* net.IP.String of a parsed address: dotted decimal when IP.To4 finds an
\* IPv4-mapped address, the RFC 5952 text otherwise
IPString(ip) ==
    LET g == ip.g IN
    IF \A k \in 1..5 : g[k] = 0 /\ g[6] = 65535
    THEN DecStr(g[7] \div 256) \o <<".">> \o DecStr(g[7] % 256) \o <<".">>
         \o DecStr(g[8] \div 256) \o <<".">> \o DecStr(g[8] % 256)
    ELSE Fmt6(g, 0, BestZeros(g, 0, 255, 255))

\* net.SplitHostPort: [ok, host]; the port is not used by the callers
SplitHostPort(hostport) ==
    LET i    == LastIndexByte(hostport, ":")
        end  == IndexByte(hostport, "]")
        fail == [ok |-> FALSE, host |-> <<>>]
    IN
    IF i < 0 THEN fail
    ELSE IF hostport[1] = "["
    THEN IF end < 0 THEN fail
         ELSE IF end + 1 = Len(hostport) THEN fail
         ELSE IF end + 1 # i THEN fail
         ELSE IF IndexByte(Slice(hostport, 1, Len(hostport)), "[") >= 0 THEN fail
         ELSE IF IndexByte(Slice(hostport, end + 1, Len(hostport)), "]") >= 0 THEN fail
         ELSE [ok |-> TRUE, host |-> Slice(hostport, 1, end)]
    ELSE IF IndexByte(Slice(hostport, 0, i), ":") >= 0 THEN fail
    ELSE IF IndexByte(hostport, "[") >= 0 THEN fail
    ELSE IF IndexByte(hostport, "]") >= 0 THEN fail
    ELSE [ok |-> TRUE, host |-> Slice(hostport, 0, i)]

(***************************************************************************)
(* collector.go: the helpers                                               *)
(***************************************************************************)
Unknown == <<"U","n","k","n","o","w","n">>

\* the X-Forwarded-For loop: the first entry, from the i-th on, that parses
\* as an IP address once trimmed
RECURSIVE xffLoop(_, _)
xffLoop(parts, i) ==
    IF i > Len(parts) THEN [found |-> FALSE, ip |-> <<>>]
    ELSE LET p == TrimSpace(parts[i]) IN
         IF ParseIP(p).ok THEN [found |-> TRUE, ip |-> p]
         ELSE xffLoop(parts, i + 1)

\* remoteIP, had it returned the trimmed RemoteAddr with its port
remoteMutantKeepPort(remoteAddr) ==
    LET hp == SplitHostPort(TrimSpace(remoteAddr)) IN
    IF hp.ok /\ ParseIP(hp.host).ok THEN TrimSpace(remoteAddr)
    ELSE IF ParseIP(remoteAddr).ok THEN IPString(ParseIP(remoteAddr))
    ELSE <<>>

\* remoteIP, had it fallen back to RemoteAddr as it is
remoteMutantRaw(remoteAddr) ==
    LET hp == SplitHostPort(TrimSpace(remoteAddr)) IN
    IF hp.ok /\ ParseIP(hp.host).ok THEN hp.host
    ELSE IF ParseIP(remoteAddr).ok THEN IPString(ParseIP(remoteAddr))
    ELSE remoteAddr

\* the fallback of clientIP: the host of the trimmed RemoteAddr when it is an
\* IP address, else the untrimmed RemoteAddr parsed and written back by
\* IP.String, else ""
remoteIP(remoteAddr) ==
    LET hp == SplitHostPort(TrimSpace(remoteAddr)) IN
    IF hp.ok /\ ParseIP(hp.host).ok THEN hp.host
    ELSE IF ParseIP(remoteAddr).ok THEN IPString(ParseIP(remoteAddr))
    ELSE <<>>

\* clientIP, had it returned the last valid entry of the list
clientIPMutantLast(r) ==
    LET parts == Split(r.xff, ",")
        valid == {i \in 1..Len(parts) : ParseIP(TrimSpace(parts[i])).ok}
    IN  IF r.xff # <<>> /\ valid # {}
        THEN TrimSpace(parts[CHOOSE i \in valid : \A j \in valid : j <= i])
        ELSE remoteIP(r.remoteAddr)

\* clientIP(r): the first valid X-Forwarded-For entry, else the fallback
clientIP(r) ==
    LET x == IF r.xff # <<>> THEN xffLoop(Split(r.xff, ","), 1)
             ELSE [found |-> FALSE, ip |-> <<>>]
    IN  IF x.found THEN x.ip ELSE remoteIP(r.remoteAddr)

\* browserOf, had it tested Chrome's token before Edge's
browserMutantChromeFirst(u) ==
    IF Contains(u, <<"c","h","r","o","m","e","/">>) THEN <<"C","h","r","o","m","e">>
    ELSE IF Contains(u, <<"e","d","g","/">>) THEN <<"E","d","g","e">>
    ELSE IF Contains(u, <<"f","i","r","e","f","o","x","/">>) THEN <<"F","i","r","e","f","o","x">>
    ELSE IF Contains(u, <<"s","a","f","a","r","i","/">>) THEN <<"S","a","f","a","r","i">>
    ELSE Unknown

\* the browser switch of parseUA, on the lower-cased user agent
browserOf(u) ==
    IF Contains(u, <<"e","d","g","/">>) THEN <<"E","d","g","e">>
    ELSE IF Contains(u, <<"c","h","r","o","m","e","/">>) THEN <<"C","h","r","o","m","e">>
    ELSE IF Contains(u, <<"f","i","r","e","f","o","x","/">>) THEN <<"F","i","r","e","f","o","x">>
    ELSE IF Contains(u, <<"s","a","f","a","r","i","/">>) THEN <<"S","a","f","a","r","i">>
    ELSE Unknown

\* the platform switch of parseUA, on the lower-cased user agent
platformOf(u) ==
    IF Contains(u, <<"w","i","n","d","o","w","s">>) THEN <<"W","i","n","d","o","w","s">>
    ELSE IF Contains(u, <<"m","a","c","i","n","t","o","s","h">>) \/ Contains(u, <<"m","a","c"," ","o","s">>) THEN <<"m","a","c","O","S">>
    ELSE IF Contains(u, <<"a","n","d","r","o","i","d">>) THEN <<"A","n","d","r","o","i","d">>
    ELSE IF Contains(u, <<"i","p","h","o","n","e">>) \/ Contains(u, <<"i","p","a","d">>) \/ Contains(u, <<"i","o","s">>)
    THEN <<"i","O","S">>
    ELSE IF Contains(u, <<"l","i","n","u","x">>) THEN <<"L","i","n","u","x">>
    ELSE Unknown

\* parseUA(ua): both switches on the lower-cased user agent
parseUA(ua) ==
    LET u == ToLower(ua) IN [browser |-> browserOf(u), platform |-> platformOf(u)]

\* firstLang(al)
firstLang(al) ==
    LET t == TrimSpace(al)
        i == IndexByte(t, ",")
    IN  IF t = <<>> THEN <<>>
        ELSE IF i > 0 THEN Slice(t, 0, i)
        ELSE t

(***************************************************************************)
(* State                                                                   *)
(***************************************************************************)
VARIABLES
    c,        \* the *Collector the caller holds: ptr (non-nil) and its geo field
    err,      \* the error NewCollector or Close returned last
    req,      \* the request of the last Extract
    info,     \* the Info the last Extract returned
    looked,   \* whether the last Extract called c.geo.Country
    now,      \* the server's clock
    last,     \* the operation performed last
    table,    \* the rows of public.logintracking, in insertion order
    ret,      \* the error the last Insert returned
    conns,    \* calls of databasesmng.CreateConnection so far
    execs,    \* calls of db.Exec so far
    dbSaid    \* the receiver of the last Insert and what the database answered

vars == <<c, err, req, info, looked, now, last, table, ret, conns, execs, dbSaid>>

(***************************************************************************)
(* Bounds                                                                  *)
(***************************************************************************)
\* entries of an X-Forwarded-For list
MaxHops == 3

\* pieces a User-Agent value is made of
MaxUAParts == 3

\* pieces an Accept-Language value is made of
MaxLangParts == 3

\* ticks of the server's clock
MaxClock == 1

\* calls of Insert
MaxCalls == 3

(***************************************************************************)
(* Collector                                                               *)
(***************************************************************************)
\* a nil *Collector
NilCollector == [ptr |-> FALSE, geo |-> "nil"]

\* &Collector{}: a collector that holds no database
ZeroValue == [ptr |-> TRUE, geo |-> "nil"]

\* what geoip2.Open does with the path: the file is a readable database or not
OpenResults == {"ok", "open: no such file", "open: invalid database"}

\* NewCollectorResult, had it returned a collector along with the error
NewCollectorMutantHalf(opened) ==
    IF opened # "ok" THEN [c |-> ZeroValue, err |-> opened]
    ELSE [c |-> [ptr |-> TRUE, geo |-> "open"], err |-> "nil"]

\* NewCollector's pair of results, given what geoip2.Open returned
NewCollectorResult(opened) ==
    IF opened # "ok" THEN [c |-> NilCollector, err |-> opened]
    ELSE [c |-> [ptr |-> TRUE, geo |-> "open"], err |-> "nil"]

\* what Reader.Close returns
CloseResults == {"nil", "close: munmap failed"}

\* Close's result and the collector after it, given what Reader.Close would
\* return; the geo field keeps pointing at the (now closed) reader
CloseResult(col, closed) ==
    IF col.geo # "nil"
    THEN [c |-> [col EXCEPT !.geo = "closed"], err |-> closed]
    ELSE [c |-> col, err |-> "nil"]

(***************************************************************************)
(* Extract                                                                 *)
(***************************************************************************)
\* what c.geo.Country(p) returns: an error, a nil record, or a record whose
\* Country.IsoCode may be empty
GeoAnswers ==
    {[err |-> TRUE,  rec |-> FALSE, iso |-> <<>>],
     [err |-> FALSE, rec |-> FALSE, iso |-> <<>>],
     [err |-> FALSE, rec |-> TRUE,  iso |-> <<>>],
     [err |-> FALSE, rec |-> TRUE,  iso |-> <<"U","S">>],
     [err |-> FALSE, rec |-> TRUE,  iso |-> <<"C","R">>]}

\* a closed reader answers every lookup with an error
GeoAnswersOf(col) ==
    IF col.geo = "closed" THEN {a \in GeoAnswers : a.err} ELSE GeoAnswers

\* whether Extract reaches the call of c.geo.Country
geoConsulted(col, r, ip) ==
    TrimSpace(r.cf) = <<>> /\ col.geo # "nil" /\ ip # <<>> /\ ParseIP(ip).ok

\* countryOf, had it asked GeoIP before reading the CDN header
countryMutantGeoFirst(col, r, ip, ans) ==
    LET viaGeo == col.geo # "nil" /\ ip # <<>> /\ ParseIP(ip).ok
                  /\ ~ans.err /\ ans.rec /\ ans.iso # <<>>
        country == IF viaGeo THEN ans.iso ELSE TrimSpace(r.cf)
    IN  IF country = <<>> THEN Unknown ELSE country

\* countryOf, without its final default
countryMutantEmpty(col, r, ip, ans) ==
    IF geoConsulted(col, r, ip) /\ ~ans.err /\ ans.rec /\ ans.iso # <<>>
    THEN ans.iso
    ELSE TrimSpace(r.cf)

\* the country resolution of Extract: the CDN header, else GeoIP, else Unknown
countryOf(col, r, ip, ans) ==
    LET country == IF geoConsulted(col, r, ip) /\ ~ans.err /\ ans.rec /\ ans.iso # <<>>
                   THEN ans.iso
                   ELSE TrimSpace(r.cf)
    IN  IF country = <<>> THEN Unknown ELSE country

\* a request: the headers Extract reads (absent is the empty string, as
\* Header.Get gives it) and RemoteAddr; hops is the list of entries the
\* X-Forwarded-For value was joined from, which the code never reads
Request(hops, xff, remoteAddr, cf, ua, al, offset) ==
    [hops |-> hops, xff |-> xff, remoteAddr |-> remoteAddr, cf |-> cf,
     ua |-> ua, al |-> al, offset |-> offset]

NoRequest == Request(<<>>, <<>>, <<>>, <<>>, <<>>, <<>>, <<>>)

NoInfo ==
    [IP |-> <<>>, Platform |-> <<>>, Browser |-> <<>>, CountryCode |-> <<>>,
     GMTTime |-> <<>>, Lang |-> <<>>, UserAgent |-> <<>>, RequestTime |-> 0]

\* c.Extract(r): the Info returned, when the database (if it is consulted)
\* answers ans
Extract(r) ==
    LET ua == parseUA(r.ua)
        ip == clientIP(r)
    IN
    /\ c.ptr
    /\ \E ans \in GeoAnswersOf(c) :
          info' = [IP          |-> ip,
                   Platform    |-> ua.platform,
                   Browser     |-> ua.browser,
                   CountryCode |-> countryOf(c, r, ip, ans),
                   GMTTime     |-> TrimSpace(r.offset),
                   Lang        |-> firstLang(r.al),
                   UserAgent   |-> r.ua,
                   RequestTime |-> now]
    /\ looked' = geoConsulted(c, r, ip)
    /\ req' = r
    /\ last' = "Extract"
    /\ UNCHANGED <<c, err, now, table, ret, conns, execs, dbSaid>>

\* c, err := NewCollector(path)
NewCollector ==
    /\ \E opened \in OpenResults :
          /\ c' = NewCollectorResult(opened).c
          /\ err' = NewCollectorResult(opened).err
    /\ last' = "NewCollector"
    /\ UNCHANGED <<req, info, looked, now, table, ret, conns, execs, dbSaid>>

\* c := &Collector{}
ZeroCollector ==
    /\ c' = ZeroValue
    /\ err' = "nil"
    /\ last' = "ZeroCollector"
    /\ UNCHANGED <<req, info, looked, now, table, ret, conns, execs, dbSaid>>

\* err := c.Close()
Close ==
    /\ c.ptr
    /\ \E closed \in CloseResults :
          /\ c' = CloseResult(c, closed).c
          /\ err' = CloseResult(c, closed).err
    /\ last' = "Close"
    /\ UNCHANGED <<req, info, looked, now, table, ret, conns, execs, dbSaid>>

\* time passes
Tick ==
    /\ now < MaxClock
    /\ now' = now + 1
    /\ UNCHANGED <<c, err, req, info, looked, last, table, ret, conns, execs, dbSaid>>

(***************************************************************************)
(* LoginTracking.Insert                                                    *)
(***************************************************************************)
NilError == [msg |-> "nil", cause |-> "nil"]

\* what databasesmng.CreateConnection returns as its error
ConnResults == {"nil", "dial tcp: connection refused"}

\* what db.Exec returns as its error
ExecResults == {"nil", "pq: value too long", "driver: bad connection"}

\* the twelve columns of the INSERT, $1..$12 in the order of the statement
Row(lt) ==
    [userid |-> lt.UserID, email |-> lt.Email, datelocalacces |-> lt.DateLocalAcces,
     ip |-> lt.IP, platform |-> lt.Platform, macaddress |-> lt.MacAddress,
     browser |-> lt.Browser, countrycode |-> lt.CountryCode, gmttime |-> lt.GMTTime,
     lang |-> lt.Lang, action |-> lt.Action, jsonstring |-> lt.Jsonstring]

\* the statement as the database executes it: one row added, or, when the
\* statement fails, nothing
Exec(tbl, row, res) == IF res = "nil" THEN Append(tbl, row) ELSE tbl

\* InsertResult, had it executed the statement again after a failure
InsertMutantRetry(lt, tbl, conn, exec) ==
    IF conn # "nil"
    THEN [ret |-> [msg |-> "DB connection error", cause |-> conn],
          table |-> tbl, conns |-> 1, execs |-> 0]
    ELSE IF exec # "nil"
    THEN [ret |-> NilError, table |-> Exec(Exec(tbl, Row(lt), exec), Row(lt), "nil"),
          conns |-> 1, execs |-> 2]
    ELSE [ret |-> NilError, table |-> Exec(tbl, Row(lt), exec),
          conns |-> 1, execs |-> 1]

\* one call of lt.Insert() on table tbl, when CreateConnection returns the
\* error conn and db.Exec (if it is reached) the error exec: the error
\* returned, the table afterwards, and the calls made
InsertResult(lt, tbl, conn, exec) ==
    IF conn # "nil"
    THEN [ret |-> [msg |-> "DB connection error", cause |-> conn],
          table |-> tbl, conns |-> 1, execs |-> 0]
    ELSE IF exec # "nil"
    THEN [ret |-> [msg |-> "Failed to insert user", cause |-> exec],
          table |-> Exec(tbl, Row(lt), exec), conns |-> 1, execs |-> 1]
    ELSE [ret |-> NilError, table |-> Exec(tbl, Row(lt), exec),
          conns |-> 1, execs |-> 1]

\* err := lt.Insert()
Insert(lt) ==
    /\ conns < MaxCalls
    /\ \E conn \in ConnResults, exec \in ExecResults :
          LET res == InsertResult(lt, table, conn, exec) IN
          /\ ret' = res.ret
          /\ table' = res.table
          /\ conns' = conns + res.conns
          /\ execs' = execs + res.execs
          /\ dbSaid' = [lt |-> lt, conn |-> conn,
                        exec |-> IF conn = "nil" THEN exec ELSE "not reached"]
    /\ last' = "Insert"
    /\ UNCHANGED <<c, err, req, info, looked, now>>

(***************************************************************************)
(* Inputs                                                                  *)
(***************************************************************************)
\* the sequences of at most n elements of set
SeqsUpTo(set, n) == UNION {[1..k -> set] : k \in 0..n}

RECURSIVE Concat(_)
Concat(ss) == IF ss = <<>> THEN <<>> ELSE Head(ss) \o Concat(Tail(ss))

\* the entries of a proxy chain, as the header carries them
RECURSIVE JoinComma(_)
JoinComma(ss) ==
    IF ss = <<>> THEN <<>>
    ELSE IF Len(ss) = 1 THEN ss[1]
    ELSE ss[1] \o <<",">> \o JoinComma(Tail(ss))

XFFEntries ==
    {<<"2","0","3",".","0",".","1","1","3",".","7">>, <<" ","1","0",".","0",".","0",".","1","\t">>, <<" ","2","0","0","1",":","d","b","8",":",":","1">>, <<>>, <<"1","0",".","0",".","0",".","1",":","8","0">>}

Hosts ==
    {<<"1","9","8",".","5","1",".","1","0","0",".","2">>, <<"2","0","0","1",":","d","b","8",":",":","2">>, <<":",":","1">>, <<"l","o","c","a","l","h","o","s","t">>, <<"f","e","8","0",":",":","1","%","e">>, <<"3","0","0",".","1",".","1",".","1">>}

Ports == {<<"5","4","3","2","1">>, <<"8","0">>}

\* "host:port" as the net/http server writes RemoteAddr
HostPort(h, p) ==
    IF IndexByte(h, ":") >= 0 THEN <<"[">> \o h \o <<"]", ":">> \o p
    ELSE h \o <<":">> \o p

OtherPeers ==
    {<<"1","9","8",".","5","1",".","1","0","0",".","2">>, <<" ","1","9","8",".","5","1",".","1","0","0",".","2"," ">>, <<" ","1","9","8",".","5","1",".","1","0","0",".","2",":","8","0","\t">>, <<"0",":","0",":","0",":","0",":","0",":","0",":","0",":","1">>,
     <<":",":","F","F","F","F",":","1","9","8",".","5","1",".","1","0","0",".","2">>, <<"2","0","0","1",":","D","B","8",":",":","2">>, <<"2","0","0","1",":","d","b","8",":",":","2">>, <<":",":","1",":","8","0">>, <<"@">>, <<>>,
     <<"[",":",":","1","]">>}

RemoteAddrs == {HostPort(h, p) : h \in Hosts, p \in Ports} \cup OtherPeers

IPRequests ==
    {Request(hops, JoinComma(hops), ra, <<>>, <<>>, <<>>, <<>>) :
        hops \in SeqsUpTo(XFFEntries, MaxHops), ra \in RemoteAddrs}

UAPieces ==
    {<<"e","D","g","/">>, <<"C","H","R","O","M","E","/">>, <<"F","i","r","e","f","o","x","/">>, <<"S","a","f","a","r","i","/">>, <<"W","i","n","d","o","w","s">>, <<"M","a","c","i","n","t","o","s","h">>,
     <<"M","a","c"," ","O","S">>, <<"A","n","d","r","o","i","d">>, <<"i","P","h","o","n","e">>, <<"i","P","a","d">>, <<"i","O","S">>, <<"L","i","n","u","x">>, <<"M","o","z","i","l","l","a"," ">>}

UARequests ==
    {Request(<<>>, <<>>, <<"1","9","8",".","5","1",".","1","0","0",".","2",":","8","0">>, <<"C","R">>, Concat(ps), <<>>, <<>>) :
        ps \in SeqsUpTo(UAPieces, MaxUAParts)}

LangPieces == {<<"e","s","-","C","R">>, <<"e","n",";","q","=","0",".","8">>, <<",">>, <<" ">>, <<"E","N","-","u","s">>}

LangRequests ==
    {Request(<<>>, <<>>, <<"1","9","8",".","5","1",".","1","0","0",".","2",":","8","0">>, <<>>, <<>>, Concat(ps), <<>>) :
        ps \in SeqsUpTo(LangPieces, MaxLangParts)}

CountryHeaders == {<<>>, <<" ","\t">>, <<"U","S">>, <<" ","C","R"," ">>, <<"X","X">>, <<"z","z","-","t","o","p">>}

GeoRequests ==
    {Request(<<>>, xff, ra, cf, <<>>, <<>>, off) :
        xff \in {<<>>, <<"2","0","3",".","0",".","1","1","3",".","7">>},
        ra \in {<<"1","9","8",".","5","1",".","1","0","0",".","2",":","5","4","3","2","1">>, <<"@">>},
        cf \in CountryHeaders,
        off \in {<<" ","-","3","6","0"," ">>}}

Lt(user, action) ==
    [UserID |-> user, Email |-> "a@example.org", DateLocalAcces |-> "2024-01-01",
     IP |-> "203.0.113.7", Platform |-> "Linux", MacAddress |-> "", Browser |-> "Firefox",
     CountryCode |-> "CR", GMTTime |-> "-360", Lang |-> "es-CR", Action |-> action,
     Jsonstring |-> "{}"]

Lts == {Lt(u, a) : u \in {"u1", "u2"}, a \in {"login", "logout"}}

(***************************************************************************)
(* Specifications                                                          *)
(***************************************************************************)
InitRest ==
    /\ err = "nil"
    /\ info = NoInfo
    /\ looked = FALSE
    /\ now = 0
    /\ last = "init"
    /\ table = <<>>
    /\ ret = NilError
    /\ conns = 0
    /\ execs = 0
    /\ dbSaid = [lt |-> Lt("", ""), conn |-> "nil", exec |-> "nil"]

\* the collectors a handler can be serving with
Serving == {ZeroValue, [ptr |-> TRUE, geo |-> "open"]}

\* the handler extracts the metadata of the request it was given
Serve == last = "init" /\ Extract(req)

\* client IP resolution: the request's X-Forwarded-For and RemoteAddr vary
InitIP == c \in Serving /\ req \in IPRequests /\ InitRest

SpecIP == InitIP /\ [][Serve]_vars

\* user-agent classification: the request's User-Agent varies
InitUA == c \in Serving /\ req \in UARequests /\ InitRest

SpecUA == InitUA /\ [][Serve]_vars

\* language selection: the request's Accept-Language varies
InitLang == c \in Serving /\ req \in LangRequests /\ InitRest

SpecLang == InitLang /\ [][Serve]_vars

\* the collector's life and the country resolution: a collector is made,
\* serves requests and is closed
InitGeo == c = NilCollector /\ req = NoRequest /\ InitRest

NextGeo ==
    \/ NewCollector
    \/ ZeroCollector
    \/ Close
    \/ \E r \in GeoRequests : Extract(r)
    \/ Tick

SpecGeo == InitGeo /\ [][NextGeo]_vars

\* the tracking table: records are inserted
InitInsert == c = NilCollector /\ req = NoRequest /\ InitRest

NextInsert == \E lt \in Lts : Insert(lt)

SpecInsert == InitInsert /\ [][NextInsert]_vars

(***************************************************************************)
(* Properties                                                              *)
(***************************************************************************)
ValidIP(s) == ParseIP(TrimSpace(s)).ok

\* the entries of the request's proxy chain that come before the k-th
NoneValidBefore(hops, k) == \A j \in 1..(k - 1) : ~ValidIP(hops[j])

\* C1: when the X-Forwarded-For list has an entry that is a valid IP address
\* once trimmed, the IP of the Info is the first such entry, trimmed,
\* whatever the other entries and RemoteAddr are.
C1_FirstValidForwarded ==
    last = "Extract" =>
        \A k \in 1..Len(req.hops) :
            ValidIP(req.hops[k]) /\ NoneValidBefore(req.hops, k)
                => info.IP = TrimSpace(req.hops[k])

\* an invalid entry, then two valid ones: the first valid one is returned
C1_Witness ==
    /\ last = "Extract"
    /\ Len(req.hops) = 3
    /\ ~ValidIP(req.hops[1])
    /\ ValidIP(req.hops[2])
    /\ ValidIP(req.hops[3])
    /\ req.hops[2] # TrimSpace(req.hops[2])
    /\ TrimSpace(req.hops[3]) # TrimSpace(req.hops[2])
    /\ info.IP = TrimSpace(req.hops[2])

\* C2: a CF-IPCountry value that is not empty once trimmed is the
\* CountryCode, trimmed, and the GeoIP database is not consulted, with or
\* without a database and whatever it would answer.
C2_CdnHeaderWins ==
    last = "Extract" /\ TrimSpace(req.cf) # <<>> =>
        info.CountryCode = TrimSpace(req.cf) /\ ~looked

\* a collector with an open database and a resolvable client, and the header
\* still decides
C2_Witness ==
    /\ last = "Extract"
    /\ c.geo = "open"
    /\ info.IP # <<>>
    /\ req.cf # TrimSpace(req.cf)
    /\ info.CountryCode = <<"C","R">>
    /\ ~looked

\* the same letter, in either case
SameLetter(a, b) ==
    \/ a = b
    \/ a \in DOMAIN LowerOf /\ LowerOf[a] = b
    \/ b \in DOMAIN LowerOf /\ LowerOf[b] = a

\* the user agent holds token tok somewhere, in any case
Has(ua, tok) ==
    \E i \in 1..(Len(ua) - Len(tok) + 1) :
        \A k \in 1..Len(tok) : SameLetter(ua[i + k - 1], tok[k])

\* C3: the browser is the first of Edge, Chrome, Firefox, Safari whose token
\* the user agent holds in any case, the platform the first of Windows,
\* macOS, Android, iOS, Linux, each "Unknown" when no token is found; so
\* "Edg/" with "Chrome/" is Edge, and neither result reads the other's tokens.
C3_UserAgentChains ==
    last = "Extract" =>
        /\ info.Browser =
              (IF Has(req.ua, <<"e","d","g","/">>) THEN <<"E","d","g","e">>
               ELSE IF Has(req.ua, <<"c","h","r","o","m","e","/">>) THEN <<"C","h","r","o","m","e">>
               ELSE IF Has(req.ua, <<"f","i","r","e","f","o","x","/">>) THEN <<"F","i","r","e","f","o","x">>
               ELSE IF Has(req.ua, <<"s","a","f","a","r","i","/">>) THEN <<"S","a","f","a","r","i">>
               ELSE <<"U","n","k","n","o","w","n">>)
        /\ info.Platform =
              (IF Has(req.ua, <<"w","i","n","d","o","w","s">>) THEN <<"W","i","n","d","o","w","s">>
               ELSE IF Has(req.ua, <<"m","a","c","i","n","t","o","s","h">>) \/ Has(req.ua, <<"m","a","c"," ","o","s">>) THEN <<"m","a","c","O","S">>
               ELSE IF Has(req.ua, <<"a","n","d","r","o","i","d">>) THEN <<"A","n","d","r","o","i","d">>
               ELSE IF Has(req.ua, <<"i","p","h","o","n","e">>) \/ Has(req.ua, <<"i","p","a","d">>) \/ Has(req.ua, <<"i","o","s">>)
               THEN <<"i","O","S">>
               ELSE IF Has(req.ua, <<"l","i","n","u","x">>) THEN <<"L","i","n","u","x">>
               ELSE <<"U","n","k","n","o","w","n">>)

\* Chrome's token ahead of Edge's, with a platform token: Edge on Android
C3_Witness ==
    /\ last = "Extract"
    /\ req.ua = <<"C","H","R","O","M","E","/","e","D","g","/","A","n","d","r","o","i","d">>
    /\ info.Browser = <<"E","d","g","e">>
    /\ info.Platform = <<"A","n","d","r","o","i","d">>

\* the part of t before its first comma, t itself when it has none
BeforeFirstComma(t) ==
    IF \A i \in 1..Len(t) : t[i] # "," THEN t
    ELSE SubSeq(t, 1, (CHOOSE i \in 1..Len(t) :
                          t[i] = "," /\ \A j \in 1..(i - 1) : t[j] # ",") - 1)

\* C4: the Lang of the Info is empty for an Accept-Language value that is
\* empty once trimmed, and otherwise the part of the trimmed value before
\* its first comma, wherever that comma is, the first character included.
C4_LangBeforeFirstComma ==
    last = "Extract" => info.Lang = BeforeFirstComma(TrimSpace(req.al))

\* C5: without X-Forwarded-For and with RemoteAddr "host:port" (an IPv6 host
\* in brackets) whose host is a valid IP address, the IP of the Info is the
\* host, without the port.
C5_PeerHostWithoutPort ==
    last = "Extract" /\ req.xff = <<>> =>
        \A h \in Hosts, p \in Ports :
            ParseIP(h).ok /\ req.remoteAddr = HostPort(h, p) => info.IP = h

\* a bracketed IPv6 peer
C5_Witness ==
    /\ last = "Extract"
    /\ req.xff = <<>>
    /\ req.remoteAddr = <<"[","2","0","0","1",":","d","b","8",":",":","2","]",":","5","4","3","2","1">>
    /\ info.IP = <<"2","0","0","1",":","d","b","8",":",":","2">>

\* two upper-case letters, the shape of an ISO 3166-1 alpha-2 code
IsAlpha2(s) ==
    Len(s) = 2 /\ \A i \in 1..2 : \E k \in 1..26 : s[i] = Uppers[k]

\* C6, as claimed: the CountryCode of every Info is an ISO 3166-1 alpha-2
\* code or "Unknown".
C6_CountryIsIsoOrUnknown ==
    last = "Extract" => info.CountryCode = Unknown \/ IsAlpha2(info.CountryCode)

\* C6, amended: the CountryCode of every Info is never empty; it is the
\* trimmed CF-IPCountry value when that is not empty (any text: the header
\* is not validated), and otherwise a code the GeoIP database answered or
\* "Unknown".
C6_CountryNeverEmpty ==
    last = "Extract" =>
        /\ info.CountryCode # <<>>
        /\ TrimSpace(req.cf) # <<>> => info.CountryCode = TrimSpace(req.cf)
        /\ TrimSpace(req.cf) = <<>> =>
              \/ info.CountryCode = Unknown
              \/ /\ c.geo = "open"
                 /\ \E a \in GeoAnswers : a.iso # <<>> /\ info.CountryCode = a.iso

\* a header that is no country code is passed on; and so is, on another
\* request, the sentinel for a request nothing is known about
C6_Witness ==
    /\ last = "Extract"
    /\ req.cf = <<"z","z","-","t","o","p">>
    /\ info.CountryCode = <<"z","z","-","t","o","p">>

\* C7: Extract returns an Info with empty IP and CountryCode "Unknown", and
\* never consults GeoIP, for a request without X-Forwarded-For and
\* CF-IPCountry, on a collector without database, whose RemoteAddr is
\* neither host:port with an IP host nor an IP address.
C7_DegradedRequest ==
    (/\ last = "Extract"
     /\ req.xff = <<>>
     /\ req.cf = <<>>
     /\ c.geo = "nil"
     /\ ~ValidIP(req.remoteAddr)
     /\ \A h \in Hosts, p \in Ports :
           ParseIP(h).ok => TrimSpace(req.remoteAddr) # HostPort(h, p))
    => info.IP = <<>> /\ info.CountryCode = Unknown /\ ~looked

\* a peer address with a host name in it
C7_Witness ==
    /\ last = "Extract"
    /\ req.xff = <<>>
    /\ c.geo = "nil"
    /\ req.remoteAddr = <<"l","o","c","a","l","h","o","s","t",":","8","0">>
    /\ info.IP = <<>>
    /\ info.CountryCode = Unknown

\* C8: every call of Insert connects once and executes the statement at
\* most once (once when the connection is made); it returns nil exactly
\* when both succeed, and then the table has one more row, the receiver's,
\* whether or not the same row is there already; otherwise it returns an
\* error with the cause in it and the table is as before.
C8_InsertOnce ==
    [][/\ conns' = conns + 1
       /\ execs' = execs + (IF dbSaid'.conn = "nil" THEN 1 ELSE 0)
       /\ (ret' = NilError) <=> (dbSaid'.conn = "nil" /\ dbSaid'.exec = "nil")
       /\ ret' = NilError => table' = Append(table, Row(dbSaid'.lt))
       /\ ret' # NilError =>
             /\ table' = table
             /\ ret'.cause = (IF dbSaid'.conn # "nil" THEN dbSaid'.conn
                              ELSE dbSaid'.exec)]_vars

\* two successful calls with the same data and a failed one: two equal rows
C8_Witness ==
    /\ conns = 3
    /\ execs = 3
    /\ Len(table) = 2
    /\ table[1] = table[2]
    /\ ret # NilError

\* C9 (a step that is not a tick of the clock is the operation named by
\* last afterwards): NewCollector returns a collector with an open database and a nil
\* error, or a nil collector and an error; Close on a collector without
\* database changes nothing and returns nil; Extract leaves the collector as
\* it is.
C9_CollectorLifecycle ==
    [][/\ last' = "NewCollector" =>
             \/ err' = "nil" /\ c'.ptr /\ c'.geo = "open"
             \/ err' # "nil" /\ ~c'.ptr
       /\ last' = "Close" /\ now' = now /\ c.geo = "nil" => c' = c /\ err' = "nil"
       /\ last' = "Extract" /\ now' = now => c' = c]_vars

\* a collector without database has been closed
C9_Witness ==
    /\ last = "Close"
    /\ c = ZeroValue
    /\ err = "nil"
    /\ info.CountryCode = Unknown

\* C10: when no X-Forwarded-For entry is a valid IP address and RemoteAddr
\* is not host:port with an IP host but is, once trimmed as in the
\* host:port step, an IP address, the IP of the Info is that address as it
\* was given.
C10_BarePeerAsGiven ==
    (/\ last = "Extract"
     /\ \A k \in 1..Len(req.hops) : ~ValidIP(req.hops[k])
     /\ LET hp == SplitHostPort(TrimSpace(req.remoteAddr))
        IN  ~(hp.ok /\ ParseIP(hp.host).ok)
     /\ ValidIP(req.remoteAddr))
    => info.IP = TrimSpace(req.remoteAddr)

=============================================================================
